---------------------------- MODULE Spec2Model ----------------------------
(***************************************************************************)
(* Logistic regression trained by gradient descent with the low-level      *)
(* backend, as written in the notebook                                     *)
(*   notebooks/8 - Implementing models using the low-level backend.ipynb   *)
(*                                                                         *)
(* The notebook is a sequence of cells run top to bottom.  The model       *)
(* follows the cells from the construction of the update list (cell 10)    *)
(* to the computation of the accuracy (cell 17).  Real numbers are kept in *)
(* fixed point: a real r is the integer r * Scale.  The backend's sigmoid  *)
(* and logarithm are tabulated and interpolated linearly between the       *)
(* knots, so, like their float32 originals, they round: sigmoid of a       *)
(* value close enough to 0 is exactly one half.                            *)
(***************************************************************************)
EXTENDS Integers, Sequences, FiniteSets

VARIABLES
    seed,         \* the draw of np.random behind W's initial value and the dataset
    pc,           \* the statement the notebook is at
    W,            \* K.variable, shape (5, 1): the weights
    b,            \* K.variable, shape (1,): the bias
    updates,      \* the list of tuples (parameter to update, new_value)
    train_fn,     \* the compiled function: its outputs and its updates
    iteration,    \* the loop variable of the training loop (-1: not yet bound)
    iter_loss,    \* the value the last call of train_fn returned
    pending,      \* inside a call of train_fn: the values computed, not yet stored
    reports,      \* the lines the training loop printed: <<iteration, loss>>
    predictions,  \* predict([X_batch])
    predicted,    \* (predictions > 0.5).astype('int')
    accuracy,     \* the accuracy, in percent
    started,      \* calls of train_fn begun
    returned,     \* calls of train_fn that returned
    nUpdates,     \* times the updates of train_fn were stored into W and b
    failedAt      \* the iteration whose call raised (-1: none)

vars == <<seed, pc, W, b, updates, train_fn, iteration, iter_loss, pending,
          reports, predictions, predicted, accuracy, started, returned, nUpdates,
          failedAt>>

---------------------------------------------------------------------------
(* Bounds and program constants *)

\* The draws of np.random the model starts from: 0 .. MaxSeed.
MaxSeed == 3

\* x = K.placeholder(shape=(None, 5)); W = K.variable(0.01*np.random.randn(5, 1))
NumFeatures == 5

\* X_batch = 2*np.random.randn(16, 5)
NumSamples == 16

\* for iteration in range(1000)
NumIterations == 1000

\* if iteration % 100 == 0
PrintEvery == 100

\* Fixed point: the integer n stands for the real n / Scale.
Scale == 10 ^ 4

\* lr = 0.1, in fixed point
lr == 1000

\* The threshold 0.5 of the predicted class, in fixed point.
Half == Scale \div 2

None == -1

---------------------------------------------------------------------------
(* Arithmetic *)

\* The one element of a singleton.  Only({e(v) : v \in {x}}) is
\* LET v == x IN e(v), with x computed once.
Only(S) == CHOOSE v \in S : TRUE

\* A vector, as a sequence
Vec(f) == SubSeq(f, 1, Len(f))

\* n / d rounded to the nearest integer, halves away from zero (d > 0).
DivRound(n, d) ==
    Only({IF m >= 0 THEN (2 * m + d) \div (2 * d)
                    ELSE -((2 * (-m) + d) \div (2 * d)) : m \in {n}})

\* The product of two fixed-point values, a split into its integer part and
\* its fraction so that no intermediate value leaves 32 bits.
FixMul(a, c) ==
    Only({(v \div Scale) * c + DivRound((v % Scale) * c, Scale) : v \in {a}})

RECURSIVE SumTo(_, _)
\* f[1] + ... + f[n]
SumTo(f, n) == IF n = 0 THEN 0 ELSE f[n] + SumTo(f, n - 1)

\* K.mean of a vector
K_mean(v) == Only({DivRound(SumTo(u, Len(u)), Len(u)) : u \in {v}})

\* sigmoid(k) for k = 0 .. 10, in fixed point
SigmoidKnots == <<5000, 7311, 8808, 9526, 9820, 9933, 9975, 9991, 9997, 9999, 10000>>

\* K.sigmoid of a fixed-point value
K_sigmoid(z) ==
    LET pos(u) ==
            LET k == u \div Scale
            IN  IF k >= Len(SigmoidKnots) - 1 THEN Scale
                ELSE SigmoidKnots[k + 1]
                     + ((SigmoidKnots[k + 2] - SigmoidKnots[k + 1]) * (u - k * Scale))
                       \div Scale
    IN  Only({IF v >= 0 THEN pos(v) ELSE Scale - pos(-v) : v \in {z}})

\* The knots of the logarithm: <<p, ln(p)>>, both in fixed point
LogKnots ==
    << <<1, -92103>>, <<2, -85172>>, <<5, -76009>>, <<10, -69078>>,
       <<20, -62146>>, <<50, -52983>>, <<100, -46052>>, <<200, -39120>>,
       <<500, -29957>>, <<1000, -23026>>, <<2000, -16094>>, <<3000, -12040>>,
       <<4000, -9163>>, <<5000, -6931>>, <<6000, -5108>>, <<7000, -3567>>,
       <<8000, -2231>>, <<9000, -1054>>, <<10000, 0>> >>

\* K.log of a fixed-point value in 1 .. Scale
K_log(p) ==
    LET interpolate(lo, hi) ==
            lo[2] + DivRound((hi[2] - lo[2]) * (p - lo[1]), hi[1] - lo[1])
    IN  Only({interpolate(LogKnots[k], LogKnots[k + 1]) :
                 k \in {CHOOSE i \in 1..(Len(LogKnots) - 1) :
                            LogKnots[i][1] <= p /\ p <= LogKnots[i + 1][1]}})

\* K.clip
K_clip(v, lo, hi) == IF v < lo THEN lo ELSE IF v > hi THEN hi ELSE v

---------------------------------------------------------------------------
(* The inputs: what np.random drew *)

\* 2*np.random.randn: entry (i, j) of the draw, a real in -4 .. 4
Randn2(s, i, j) == ((s * 3 + i * i * 7 + j * 5 + i * j * 3) % 9) - 4

\* X_batch = 2*np.random.randn(16, 5), in fixed point.  An even draw is
\* mirror-symmetric (sample i + 8 is the opposite of sample i, with the
\* opposite label) and its samples 8 and 16 are the zero vector.
X_of(s) ==
    [i \in 1..NumSamples |->
        [j \in 1..NumFeatures |->
            IF s % 2 = 1 THEN Scale * Randn2(s, i, j)
            ELSE LET h == NumSamples \div 2
                 IN  IF i % h = 0 THEN 0
                     ELSE IF i <= h THEN Scale * Randn2(s, i, j)
                     ELSE -(Scale * Randn2(s, i - h, j))]]

\* y_batch = np.random.randint(0, 2, size=(16, 1))
y_of(s) ==
    LET draw(i) == (s + i * i + (i \div 3)) % 2
    IN  [i \in 1..NumSamples |->
            IF s % 2 = 1 \/ i <= NumSamples \div 2 THEN draw(i)
            ELSE 1 - draw(i - NumSamples \div 2)]

\* W = K.variable(0.01*np.random.randn(5, 1)), in fixed point
W_init(s) == [j \in 1..NumFeatures |-> ((s * 37 + j * 53) % 401) - 200]

\* b = K.variable(np.zeros(1))
b_init == <<0>>

X_batch == X_of(seed)
y_batch == y_of(seed)

---------------------------------------------------------------------------
(* The symbolic graph *)

\* K.dot(x, W) for one sample
K_dot(xi, w) == SumTo([j \in 1..NumFeatures |-> FixMul(xi[j], w[j])], NumFeatures)

\* y_hat = K.sigmoid(K.dot(x, W) + b), on the batch X
y_hat(X, w, bb) == Vec([i \in 1..Len(X) |-> K_sigmoid(K_dot(X[i], w) + bb[1])])

\* K.binary_crossentropy(output, target): the output is clipped away from
\* 0 and 1 by the backend's epsilon.
K_binary_crossentropy(output, target) ==
    LET o == K_clip(output, 1, Scale - 1)
    IN  -(target * K_log(o) + (1 - target) * K_log(Scale - o))

\* loss = K.mean(K.binary_crossentropy(y_hat, y))
loss(X, y, w, bb) ==
    Only({K_mean([i \in 1..Len(X) |-> K_binary_crossentropy(p[i], y[i])]) :
             p \in {y_hat(X, w, bb)}})

\* params = [W, b]
params == <<"W", "b">>

\* The value of one entry of K.gradients(loss, params) on the batch:
\* d loss / d W = mean((y_hat - y) * x), d loss / d b = mean(y_hat - y).
GradValue(wrt, X, y, w, bb) ==
    LET residual(p) == Vec([i \in 1..Len(X) |-> p[i] - Scale * y[i]])
        dW(r) == Vec([j \in 1..NumFeatures |->
                     K_mean([i \in 1..Len(X) |-> FixMul(X[i][j], r[i])])])
        db(r) == <<K_mean(r)>>
    IN  Only({IF wrt = "W" THEN dW(r) ELSE db(r) :
                 r \in {residual(p) : p \in {y_hat(X, w, bb)}}})

\* gradients = K.gradients(loss, params): one symbolic gradient per parameter
gradients == [k \in 1..Len(params) |-> [grad_of |-> "loss", wrt |-> params[k]]]

\* A slip: each parameter zipped with the gradient of the other one.
ZipParams_Crossed ==
    [k \in 1..Len(params) |-> <<params[k], gradients[Len(params) + 1 - k]>>]

\* zip([W, b], gradients)
ZipParams == [k \in 1..Len(params) |-> <<params[k], gradients[k]>>]

\* new_p = p - lr*g, as an expression of the graph
NewP(p, g) == [minuend |-> p, rate |-> lr, grad |-> g]

\* The value of the parameter named p
ValueOf(p, w, bb) == IF p = "W" THEN w ELSE bb

\* The value of an expression p - lr*g on the batch (g is broadcast)
EvalNewP(e, X, y, w, bb) ==
    LET old == ValueOf(e.minuend, w, bb)
        minus(g) ==
            Vec([j \in 1..Len(old) |->
                    old[j] - FixMul(e.rate, g[IF Len(g) = 1 THEN 1 ELSE j])])
    IN  Only({minus(g) : g \in {GradValue(e.grad.wrt, X, y, w, bb)}})


---------------------------------------------------------------------------
(* The compiled functions *)

\* K.function(inputs, outputs, updates=updates)
K_function(outs, upds) == [outputs |-> outs, updates |-> upds]

\* The value of an output of a compiled function on the batch
EvalOutput(out, X, y, w, bb) ==
    IF out = "loss" THEN loss(X, y, w, bb) ELSE y_hat(X, w, bb)

\* The new value of the parameter named p under the update list upds: every
\* new value is computed from the values w and bb held when the function is
\* called; a parameter the list does not name keeps its value.
UpdatedValue(p, upds, X, y, w, bb) ==
    IF \E k \in 1..Len(upds) : upds[k][1] = p
    THEN LET k == CHOOSE i \in 1..Len(upds) : upds[i][1] = p
         IN  EvalNewP(upds[k][2], X, y, w, bb)
    ELSE ValueOf(p, w, bb)

\* A slip: the updates are stored before the outputs are computed.
K_function_call_LossAfter(fn, X, y, w, bb) ==
    LET nw == UpdatedValue("W", fn.updates, X, y, w, bb)
        nb == UpdatedValue("b", fn.updates, X, y, w, bb)
    IN  [out |-> EvalOutput(fn.outputs, X, y, nw, nb), W |-> nw, b |-> nb]

RECURSIVE ApplyInOrder(_, _, _, _, _, _)
\* The updates upds[k], upds[k + 1], ... stored one after the other
ApplyInOrder(upds, k, X, y, w, bb) ==
    IF k > Len(upds) THEN [W |-> w, b |-> bb]
    ELSE LET v == EvalNewP(upds[k][2], X, y, w, bb)
         IN  IF upds[k][1] = "W" THEN ApplyInOrder(upds, k + 1, X, y, v, bb)
             ELSE ApplyInOrder(upds, k + 1, X, y, w, v)

\* A slip: each update sees the parameters the updates before it stored.
K_function_call_Sequential(fn, X, y, w, bb) ==
    LET new == ApplyInOrder(fn.updates, 1, X, y, w, bb)
    IN  [out |-> EvalOutput(fn.outputs, X, y, w, bb), W |-> new.W, b |-> new.b]

\* One call fn([X, y]): the outputs and the new values of the parameters, all
\* computed from the values held before the call.  The new values are stored
\* after the call (TrainFnReturn).
K_function_call(fn, X, y, w, bb) ==
    [out |-> EvalOutput(fn.outputs, X, y, w, bb),
     W   |-> UpdatedValue("W", fn.updates, X, y, w, bb),
     b   |-> UpdatedValue("b", fn.updates, X, y, w, bb)]

\* A slip: the end of the range included.
range_Inclusive(n) == 0..n

\* range(n)
range(n) == 0..(n - 1)

\* A slip: 0.5 itself counted as the positive class.
PredictedClass_AtLeast(p) == IF p >= Half THEN 1 ELSE 0

\* (predictions > 0.5).astype('int')
PredictedClass(p) == IF p > Half THEN 1 ELSE 0

\* (y_batch == (predictions > 0.5).astype('int')).mean()*100, in fixed point
AsInt(preds) == [i \in 1..Len(preds) |-> PredictedClass(preds[i])]

\* (y_batch == classes).mean()*100, in fixed point
AccuracyOf(y, classes) ==
    100 * K_mean([i \in 1..Len(classes) |-> IF y[i] = classes[i] THEN Scale ELSE 0])

---------------------------------------------------------------------------
(* The notebook *)

Init ==
    /\ seed \in 0..MaxSeed
    /\ pc = "updates"
    /\ W = W_init(seed)
    /\ b = b_init
    /\ updates = <<>>
    /\ train_fn = K_function("loss", <<>>)
    /\ iteration = None
    /\ iter_loss = 0
    /\ pending = <<>>
    /\ reports = <<>>
    /\ predictions = <<>>
    /\ predicted = <<>>
    /\ accuracy = 0
    /\ started = 0
    /\ returned = 0
    /\ nUpdates = 0
    /\ failedAt = None

\* for p, g in zip([W, b], gradients): new_p = p - lr*g; updates.append((p, new_p))
BuildUpdates ==
    /\ pc = "updates"
    /\ Len(updates) < Len(ZipParams)
    /\ LET pg == ZipParams[Len(updates) + 1]
       IN  updates' = Append(updates, <<pg[1], NewP(pg[1], pg[2])>>)
    /\ UNCHANGED <<seed, pc, W, b, train_fn, iteration, iter_loss, pending,
                   reports, predictions, predicted, accuracy, started, returned, nUpdates,
                   failedAt>>

\* train_fn = K.function([x, y], loss, updates=updates)
CompileTrainFn ==
    /\ pc = "updates"
    /\ Len(updates) = Len(ZipParams)
    /\ train_fn' = K_function("loss", updates)
    /\ pc' = "for"
    /\ UNCHANGED <<seed, W, b, updates, iteration, iter_loss, pending, reports,
                   predictions, predicted, accuracy, started, returned, nUpdates, failedAt>>

\* A slip: the next iteration begins while the call is still inside train_fn.
ForLoop_Overlapping ==
    /\ pc \in {"for", "store"}
    /\ IF iteration + 1 \in range(NumIterations)
       THEN /\ iteration' = iteration + 1
            /\ pc' = "call"
       ELSE /\ pc' = "final"
            /\ UNCHANGED iteration
    /\ UNCHANGED <<seed, W, b, updates, train_fn, iter_loss, pending, reports,
                   predictions, predicted, accuracy, started, returned, nUpdates, failedAt>>

\* for iteration in range(1000): the next iteration, or the end of the loop
ForLoop ==
    /\ pc = "for"
    /\ IF iteration + 1 \in range(NumIterations)
       THEN /\ iteration' = iteration + 1
            /\ pc' = "call"
       ELSE /\ pc' = "final"
            /\ UNCHANGED iteration
    /\ UNCHANGED <<seed, W, b, updates, train_fn, iter_loss, pending, reports,
                   predictions, predicted, accuracy, started, returned, nUpdates, failedAt>>

\* train_fn([X_batch, y_batch]) is entered and computes its values
TrainFnCall ==
    /\ pc = "call"
    /\ started' = started + 1
    /\ pending' = K_function_call(train_fn, X_batch, y_batch, W, b)
    /\ pc' = "store"
    /\ UNCHANGED <<seed, W, b, updates, train_fn, iteration, iter_loss, reports,
                   predictions, predicted, accuracy, returned, nUpdates, failedAt>>

\* A slip: the failure is caught and the call made again.
TrainFnRaise_Retried ==
    /\ pc = "call"
    /\ failedAt = None
    /\ started' = started + 1
    /\ failedAt' = iteration
    /\ UNCHANGED <<seed, pc, W, b, updates, train_fn, iteration, iter_loss, pending,
                   reports, predictions, predicted, accuracy, returned, nUpdates>>

\* train_fn([X_batch, y_batch]) raises: the loop has no try, the cell ends
TrainFnRaise ==
    /\ pc = "call"
    /\ started' = started + 1
    /\ failedAt' = iteration
    /\ pc' = "raised"
    /\ UNCHANGED <<seed, W, b, updates, train_fn, iteration, iter_loss, pending,
                   reports, predictions, predicted, accuracy, returned, nUpdates>>

\* The call stores its updates and returns: iter_loss = train_fn(...)
TrainFnReturn ==
    /\ pc = "store"
    /\ W' = pending.W
    /\ b' = pending.b
    /\ iter_loss' = pending.out
    /\ pending' = <<>>
    /\ returned' = returned + 1
    /\ nUpdates' = nUpdates + 1
    /\ pc' = "print"
    /\ UNCHANGED <<seed, updates, train_fn, iteration, reports, predictions,
                   predicted, accuracy, started, failedAt>>

\* if iteration % 100 == 0: print('Iteration {} loss: {}'.format(...))
PrintLoss ==
    /\ pc = "print"
    /\ reports' = IF iteration % PrintEvery = 0
                  THEN Append(reports, <<iteration, iter_loss>>)
                  ELSE reports
    /\ pc' = "for"
    /\ UNCHANGED <<seed, W, b, updates, train_fn, iteration, iter_loss, pending,
                   predictions, predicted, accuracy, started, returned, nUpdates, failedAt>>

\* predict = K.function([x], y_hat); predictions = predict([X_batch])
Predict ==
    /\ pc = "final"
    /\ predictions' =
           K_function_call(K_function("y_hat", <<>>), X_batch, y_batch, W, b).out
    /\ pc' = "accuracy"
    /\ UNCHANGED <<seed, W, b, updates, train_fn, iteration, iter_loss, pending,
                   reports, predicted, accuracy, started, returned, nUpdates, failedAt>>

\* accuracy = (y_batch == (predictions > 0.5).astype('int')).mean()*100
Accuracy ==
    /\ pc = "accuracy"
    /\ predicted' = AsInt(predictions)
    /\ accuracy' = AccuracyOf(y_batch, AsInt(predictions))
    /\ pc' = "done"
    /\ UNCHANGED <<seed, W, b, updates, train_fn, iteration, iter_loss, pending,
                   reports, predictions, started, returned, nUpdates, failedAt>>

Next ==
    \/ BuildUpdates
    \/ CompileTrainFn
    \/ ForLoop
    \/ TrainFnCall
    \/ TrainFnRaise
    \/ TrainFnReturn
    \/ PrintLoss
    \/ Predict
    \/ Accuracy

Spec == Init /\ [][Next]_vars

---------------------------------------------------------------------------
(* Properties *)

\* A call of train_fn returns in this step.
CallReturns == returned' = returned + 1

\* A call of train_fn is entered in this step.
CallStarts == started' = started + 1

\* The update list in the opposite order
Reversed(upds) == [k \in 1..Len(upds) |-> upds[Len(upds) + 1 - k]]

\* C1: the loss a call of train_fn returns is the loss of the values W and b
\* held before the call, which are the values after exactly `iteration`
\* updates; a line the loop prints carries that iteration and that loss, and
\* the first line is the loss of the initial parameters.
C1_LossBeforeUpdate ==
    /\ [][/\ CallReturns =>
                /\ iter_loss' = loss(X_batch, y_batch, W, b)
                /\ nUpdates = iteration
                /\ nUpdates' = iteration + 1
          /\ reports' # reports =>
                /\ reports' = Append(reports, <<iteration, iter_loss>>)
                /\ nUpdates = iteration + 1]_vars
    /\ [](Len(reports) >= 1 =>
             reports[1] = <<0, loss(X_batch, y_batch, W_init(seed), b_init)>>)

\* C1 happens: two losses were reported, they differ, and the loss of the
\* last call is not the loss of the parameters that call left behind.
C1_Witness ==
    /\ pc = "for"
    /\ Len(reports) = 2
    /\ reports[2][1] = PrintEvery
    /\ reports[1][2] # reports[2][2]
    /\ iter_loss # loss(X_batch, y_batch, W, b)

\* C2: once the accuracy is computed, each of the 16 predictions is classified
\* 1 if it is strictly greater than 0.5 and 0 otherwise (0 at exactly 0.5), and
\* the accuracy is the share of the samples whose class is their label.
C2_PredictedClass ==
    pc = "done" =>
        /\ Len(predictions) = NumSamples
        /\ predictions = y_hat(X_batch, W, b)
        /\ Len(predicted) = NumSamples
        /\ \A i \in 1..NumSamples :
              /\ predictions[i] > Half => predicted[i] = 1
              /\ predictions[i] = Half => predicted[i] = 0
              /\ predictions[i] < Half => predicted[i] = 0
        /\ accuracy * NumSamples =
              100 * Scale * Cardinality({i \in 1..NumSamples : predicted[i] = y_batch[i]})

\* C2 happens: the predictions hold a value above, a value below and a value
\* of exactly 0.5, and the last one has the label 1.
C2_Witness ==
    /\ pc = "done"
    /\ \E i \in 1..NumSamples : predictions[i] > Half
    /\ \E i \in 1..NumSamples : predictions[i] < Half
    /\ \E i \in 1..NumSamples : predictions[i] = Half /\ y_batch[i] = 1

\* C3: after the loop that builds it, updates holds one tuple per parameter,
\* W then b, each pairing the parameter with itself minus lr = 0.1 times the
\* gradient of the loss with respect to itself; train_fn is compiled with it.
C3_UpdatesList ==
    LET tuple(p) ==
            <<p, [minuend |-> p, rate |-> Scale \div 10,
                  grad |-> [grad_of |-> "loss", wrt |-> p]]>>
    IN  /\ pc = "updates" =>
              \A k \in 1..Len(updates) : updates[k] = tuple(<<"W", "b">>[k])
        /\ pc # "updates" =>
              /\ updates = <<tuple("W"), tuple("b")>>
              /\ train_fn.updates = updates

\* C3 happens: the list is built and a call has stored its new values, which
\* are the old ones minus lr times the gradients.
C3_Witness ==
    /\ pc = "call"
    /\ Len(updates) = 2
    /\ updates[1][1] = "W" /\ updates[2][1] = "b"
    /\ nUpdates >= 1
    /\ W # W_init(seed)

\* C4: calls of train_fn never overlap: at most one call is inside the
\* function, a call starts only when every earlier call has returned and
\* stored its update, and while a call is inside the function the only step
\* is its own return, which is the only step that writes W and b.
C4_NoOverlap ==
    /\ [](/\ started - returned \in {0, 1}
          /\ (pc = "store") => (started = returned + 1)
          /\ started <= NumIterations)
    /\ [][/\ CallStarts =>
                /\ returned = started
                /\ nUpdates = started
                /\ iteration = started
          /\ (pc = "store") =>
                /\ CallReturns
                /\ <<W', b'>> = <<pending.W, pending.b>>
          /\ (<<W', b'>> # <<W, b>>) => (pc = "store" /\ CallReturns)]_vars

\* C4 happens: a second call is inside the function after the first returned.
C4_Witness ==
    /\ pc = "store"
    /\ started = 2
    /\ returned = 1
    /\ W # W_init(seed)

\* C5: when a call of train_fn raises in iteration k, the loop is over: it
\* stays at iteration k, the call was made once, no call follows, and no loss
\* is reported for iteration k.
C5_FailurePropagates ==
    failedAt # None =>
        /\ pc = "raised"
        /\ iteration = failedAt
        /\ started = failedAt + 1
        /\ returned = failedAt
        /\ nUpdates = failedAt
        /\ \A n \in 1..Len(reports) : reports[n][1] < failedAt
        /\ ~ENABLED (ForLoop \/ TrainFnCall \/ TrainFnRaise \/ TrainFnReturn
                       \/ PrintLoss)

\* C5 happens: the call of an iteration that would have printed raises.
C5_Witness ==
    /\ pc = "raised"
    /\ failedAt = PrintEvery
    /\ Len(reports) = 1

\* C6: when no call raises, the loop ends (every statement of the loop has a
\* next one, and the calls begun and returned count the statements run, of
\* which there are at most 1000 of each kind), after exactly 1000 calls and
\* 1000 updates, with the 10 reports of the iterations 0, 100, ..., 900 in
\* this order; at any time the reports are a prefix of these.
C6_LoopTerminates ==
    /\ Len(reports) <= 10
    /\ \A n \in 1..Len(reports) : reports[n][1] = 100 * (n - 1)
    /\ pc \in {"for", "call", "store", "print"} =>
          /\ ENABLED (ForLoop \/ TrainFnCall \/ TrainFnReturn \/ PrintLoss)
          /\ iteration < 1000
          /\ started = iteration + (IF pc = "call" THEN 0 ELSE 1)
          /\ returned = iteration + (IF pc \in {"call", "store"} THEN 0 ELSE 1)
          /\ Len(reports) = (iteration + (IF pc = "for" THEN 100 ELSE 99)) \div 100
    /\ pc \in {"final", "accuracy", "done"} =>
          /\ failedAt = None
          /\ started = 1000
          /\ returned = 1000
          /\ nUpdates = 1000
          /\ iteration = 999
          /\ Len(reports) = 10

\* C6 happens: the loop has ended without a failure.
C6_Witness ==
    /\ pc = "final"
    /\ failedAt = None
    /\ Len(reports) = 10
    /\ reports[10][1] = 900

\* C7: the updates of one call are simultaneous: the new W and the new b are
\* both computed from the W and b held before the call, and the call has the
\* same result with the tuples of updates in the opposite order.
C7_SimultaneousUpdates ==
    [][CallReturns =>
          LET gW  == GradValue("W", X_batch, y_batch, W, b)
              gb  == GradValue("b", X_batch, y_batch, W, b)
              rev == K_function_call(K_function(train_fn.outputs, Reversed(updates)),
                                     X_batch, y_batch, W, b)
          IN  /\ W' = [j \in 1..NumFeatures |-> W[j] - DivRound(lr * gW[j], Scale)]
              /\ b' = <<b[1] - DivRound(lr * gb[1], Scale)>>
              /\ <<W', b', iter_loss'>> = <<rev.W, rev.b, rev.out>>]_vars

\* C7 happens: a call changed both W and b.
C7_Witness ==
    /\ pc = "print"
    /\ W # W_init(seed)
    /\ b # b_init
    /\ GradValue("b", X_batch, y_batch, W, b) # <<0>>

=============================================================================
